---- MODULE Spec2Model ----
(***************************************************************************)
(* Wallet / ledger subsystem of the ideator API (core/views.py,            *)
(* core/admin.py, core/serializers.py, core/models.py).                    *)
(*                                                                         *)
(* Money is counted in hundredths of a so'm (DecimalField decimal_places=2)*)
(* so every Decimal of the program is an integer here.                     *)
(*                                                                         *)
(* Every HTTP request / admin request is a handler; procs is the bag of    *)
(* the handlers in flight.  A handler reads rows into Python objects (a    *)
(* snapshot)                                                               *)
(* and later writes them back; a `with transaction.atomic()` block commits *)
(* all its writes in one step or none of them.  No handler takes a row     *)
(* lock (there is no select_for_update in the sources), so other handlers  *)
(* may commit between a handler's read and its write.                      *)
(***************************************************************************)
EXTENDS Integers, Sequences, FiniteSets, Bags, TLC

\* ---------------------------------------------------------------- bounds
MaxCalls == 4
MaxTx == 2
MaxWatchedCalls == 3

\* the handlers that may be in flight at once
Slots == {"a", "b"}

\* ------------------------------------------------------ program constants
FEE == 1000000
REFERRAL_BONUS == 100000
CASHBACK_DIVISOR == 100

\* amounts a client may post, in hundredths: 0.00, 10000.00
AmountInputs == {0, 1000000}

\* the promo code table (core.Promocode rows kept by the admin site)
PromoIds == {1}
PromoRow == [code |-> "SALE", percent |-> 25, is_active |-> TRUE]

\* percents the admin may give a promo code
PercentInputs == {25, 50}

\* promo_code strings a client may post
CodeInputs == {"", "sale ", "NOPE"}

\* referral codes secrets.token_hex(4).upper() may produce
RefCodePool == {"AB12CD34", "EF56AB78"}
\* referral_code strings a client may post at registration
RefInputs == {"", "ab12cd34", "00000000"}

\* ---------------------------------------------------------------- state
VARIABLES
    users,      \* core.User rows: id -> [balance, referral_code, referred_by]
    topups,     \* core.TopUpTransaction rows: id -> record
    promos,     \* core.Promocode rows: id -> [code, percent, is_active]
    usage,      \* core.PromocodeUsage: number of rows per (user, promocode)
    projects,   \* core.Project: number of rows per owner
    notifs,     \* core.Notification: number of rows per user and title
    procs,      \* the bag of the handlers in flight (their local variables)
    calls,      \* handlers that changed the state or are still in flight
    applied,    \* history: approvals committed per top-up id
    credited,   \* history: sum of the totals approvals committed, per user
    granted,    \* history: approvals that credited a nonzero promo bonus,
                \*          per (user, promocode)
    response    \* the Response of a call that returned at once, until the
                \* client has received it; Unwatched in the runs that watch
                \* no client

vars == <<users, topups, promos, usage, projects, notifs, procs, calls,
          applied, credited, granted, response>>

db == <<users, topups, promos, usage, projects, notifs>>
hist == <<applied, credited, granted>>

UserIds == 1..Len(users)
TxIds == 1..Len(topups)
AllUsers == 1..Cardinality(RefCodePool)
AllTx == 1..MaxTx

Titles == {"Top-up requested", "Top-up approved", "New project started",
           "Referal bonusi"}

\* ------------------------------------------------------------- helpers

\* Decimal.quantize(Decimal('0.01')) of n/d hundredths under the default
\* decimal context, whose rounding is ROUND_HALF_EVEN.
QuantizeNonNeg(n, d) ==
    LET q == n \div d
        r == n % d
    IN  IF 2 * r < d THEN q
        ELSE IF 2 * r > d THEN q + 1
        ELSE IF q % 2 = 0 THEN q ELSE q + 1

Quantize(n, d) == IF n >= 0 THEN QuantizeNonNeg(n, d) ELSE 0 - QuantizeNonNeg(0 - n, d)

\* str.strip()
Strip(s) == IF s = "sale " THEN "sale" ELSE s

\* the case folding behind Django's __iexact lookups
Upper(s) ==
    CASE s = "sale" -> "SALE"
      [] s = "ab12cd34" -> "AB12CD34"
      [] OTHER -> s

IExact(a, b) == Upper(a) = Upper(b)

\* hmac.new(secret, f"{tx.id}:{user.id}", sha256).hexdigest(): a keyed hash,
\* different for different messages, that only the server can compute
Hmac(t, u) == <<"hmac", t, u>>
ForgedToken == <<"forged", 0, 0>>
MissingToken == <<"", 0, 0>>

\* the local variables of a handler: the rows it has read into memory
Idle == [kind |-> "idle", pc |-> "-", t |-> 0, u |-> 0, r |-> 0, bal |-> 0,
         used |-> FALSE, posted |-> FALSE, stamp |-> 0, sel |-> <<>>]

\* Response(body, status=code) of a call, with the row it was made for (the
\* account, the request the tx parameter resolved to) or the count an admin
\* message reports
Response(call, code, ok, text, arg) ==
    [call |-> call, code |-> code, ok |-> ok, text |-> text, arg |-> arg]

NoResponse == Response("-", 0, TRUE, "", 0)
Unwatched == Response("unwatched", 0, TRUE, "", 0)

\* the call returns r at once; the next call is made once r is received
Reply(r) ==
    /\ response \in {NoResponse, Unwatched}
    /\ response' = IF response = Unwatched THEN Unwatched ELSE r

\* the step is not the return of such a call
Silent == Reply(NoResponse)

Handlers == BagToSet(procs)

\* a new handler needs a free slot; a run that watches the client's
\* Responses serves one request at a time
Free ==
    BagCardinality(procs) < (IF response = Unwatched THEN Cardinality(Slots) ELSE 1)

Spawn(h) == procs (+) SetToBag({h})
Finish(h) == procs (-) SetToBag({h})
Move(h, g) == (procs (-) SetToBag({h})) (+) SetToBag({g})

\* a handler that goes on to change the state counts against MaxCalls
\* (MaxWatchedCalls in the runs that watch the client's Responses)
Budget == calls < (IF response = Unwatched THEN MaxCalls ELSE MaxWatchedCalls)

\* timezone.now(): a clock that every committed approval advances
RECURSIVE SumTo(_, _)
SumTo(f, n) == IF n = 0 THEN 0 ELSE f[n] + SumTo(f, n - 1)

Now(ap) == 1 + SumTo(ap, MaxTx)

\* an atomic block that loses its Notification insert
NotifyDropped(n, u, title) == n

Notify(n, u, title) == [n EXCEPT ![u][title] = @ + 1]

\* PromocodeUsage.objects.filter(user=..., promocode=...).exists()
HasUsed(u, promo) == promo # 0 /\ usage[u][promo] > 0

TypeOK ==
    /\ Len(users) <= Cardinality(RefCodePool)
    /\ Len(topups) <= MaxTx
    /\ calls \in 0..MaxCalls
    /\ BagCardinality(procs) <= Cardinality(Slots)
    /\ \A h \in Handlers : h.kind \in {"approve", "bulk", "edit", "start", "register"}

\* ---------------------------------------------------------------- Init
\* The database with the promo codes the admin has entered and the first
\* account registered (no referrer, balance 0, its referral code generated).
Init ==
    /\ users = <<[balance |-> 0, referral_code |-> "AB12CD34", referred_by |-> 0]>>
    /\ topups = <<>>
    /\ promos = [i \in PromoIds |-> PromoRow]
    /\ usage = [u \in AllUsers |-> [i \in PromoIds |-> 0]]
    /\ projects = [u \in AllUsers |-> 0]
    /\ notifs = [u \in AllUsers |-> [x \in Titles |-> 0]]
    /\ procs = EmptyBag
    /\ calls = 0
    /\ applied = [t \in AllTx |-> 0]
    /\ credited = [u \in AllUsers |-> 0]
    /\ granted = [u \in AllUsers |-> [i \in PromoIds |-> 0]]
    /\ response = Unwatched

\* ------------------------------------------------------------ Register
\* RegisterSerializer.create, lines 20-37: the user row, its referral code
\* (one the loop of lines 26-31 finds unused), the lookup of the referrer
\* and the save of referred_by.  Nothing here runs in a transaction: every
\* save is committed on its own.
RegisterCreate(ref, code) ==
    /\ Silent
    /\ Free /\ Budget
    /\ \A v \in UserIds : users[v].referral_code # code
    /\ LET u == Len(users) + 1
           input_ref == Strip(ref)
           created == Append(users, [balance |-> 0, referral_code |-> code,
                                     referred_by |-> 0])
           found == {v \in 1..u : IExact(created[v].referral_code, input_ref)}
           referrer == IF input_ref = "" \/ found = {} THEN 0
                       ELSE CHOOSE v \in found : \A w \in found : v <= w
       IN  IF referrer # 0 /\ referrer # u
           THEN /\ users' = [created EXCEPT ![u].referred_by = referrer]
                /\ procs' = Spawn(
                       [Idle EXCEPT !.kind = "register", !.pc = "credit", !.u = u,
                                    !.r = referrer, !.bal = users[referrer].balance])
           ELSE /\ users' = created
                /\ UNCHANGED procs
    /\ calls' = calls + 1
    /\ UNCHANGED <<topups, promos, usage, projects, notifs, hist>>

\* lines 39-40: referrer.balance = referrer.balance + 1000; referrer.save()
RegisterCredit(h) ==
    /\ Silent
    /\ h.kind = "register" /\ h.pc = "credit"
    /\ users' = [users EXCEPT ![h.r].balance =
                     Quantize((h.bal + REFERRAL_BONUS) * 100, 100)]
    /\ procs' = Move(h, [h EXCEPT !.pc = "notify"])
    /\ UNCHANGED <<topups, promos, usage, projects, notifs, calls, hist>>

\* lines 41-47: the referral Notification, then return user
RegisterNotify(h) ==
    /\ Silent
    /\ h.kind = "register" /\ h.pc = "notify"
    /\ notifs' = Notify(notifs, h.r, "Referal bonusi")
    /\ procs' = Finish(h)
    /\ UNCHANGED <<users, topups, promos, usage, projects, calls, hist>>

\* a database error in one of the saves of lines 39-46: the request ends
\* with an error and what was saved before stays saved
RegisterFail(h) ==
    /\ Silent
    /\ h.kind = "register"
    /\ procs' = Finish(h)
    /\ UNCHANGED <<db, calls, hist>>

\* ----------------------------------------------------------- WalletView
\* Promocode.objects.get(code__iexact=code, is_active=True)
PromoLookup(code) == {i \in PromoIds : IExact(promos[i].code, code) /\ promos[i].is_active}

\* a validate that does not look for a PromocodeUsage row
TopUpValidateNoUsageCheck(u, amount, code) ==
    IF amount <= 0 THEN "amount"
    ELSE IF Strip(code) = "" THEN "ok"
    ELSE IF PromoLookup(Strip(code)) = {} THEN "promo_code"
    ELSE "ok"

\* TopUpSerializer.validate: "ok", or the field the ValidationError names
TopUpValidate(u, amount, code) ==
    IF amount <= 0 THEN "amount"
    ELSE IF Strip(code) = "" THEN "ok"
    ELSE IF PromoLookup(Strip(code)) = {} THEN "promo_code"
    ELSE IF \E i \in PromoLookup(Strip(code)) : usage[u][i] > 0 THEN "promo_used"
    ELSE "ok"

\* line 203
Cashback(amount) == Quantize(amount * 1, CASHBACK_DIVISOR)

\* line 207
PromoBonus(amount, percent) == Quantize(amount * percent, 100)

\* line 200: is_valid(raise_exception=True) answers 400 with the field
ValidationError(u, field) == Response("wallet", 400, FALSE, field, u)

\* WalletView.post: validation, then the Pending row and its Notification
WalletPost(u, amount, code) ==
    /\ u \in UserIds
    /\ LET v == TopUpValidate(u, amount, code)
           found == PromoLookup(Strip(code))
           promo == IF Strip(code) = "" THEN 0 ELSE CHOOSE i \in found : TRUE
       IN  IF v # "ok"
           THEN /\ Reply(ValidationError(u, v))
                /\ UNCHANGED <<topups, notifs, calls>>
           ELSE /\ Silent
                /\ Budget
                /\ Len(topups) < MaxTx
                /\ topups' = Append(topups,
                       [user |-> u, amount |-> amount, cashback |-> Cashback(amount),
                        promo_code |-> promo,
                        promo_bonus |-> IF promo # 0 THEN PromoBonus(amount, promos[promo].percent)
                                        ELSE 0,
                        is_active |-> FALSE, activated_at |-> 0])
                /\ notifs' = Notify(notifs, u, "Top-up requested")
                /\ calls' = calls + 1
    /\ UNCHANGED <<users, promos, usage, projects, procs, hist>>

\* --------------------------------------------- _approve_topup_transaction
\* a PromocodeUsage table without its unique constraint
NotUnique(rows) == TRUE

\* unique_together = ('user', 'promocode') of PromocodeUsage: whether the
\* table may hold `rows` rows for one pair
UniqueTogether(rows) == rows <= 1

\* an approval that credits the stored bonus without the has_used re-check
ApprovedBonusUnchecked(tx, used) == IF tx.promo_code # 0 THEN tx.promo_bonus ELSE 0

\* an approval that computes the bonus from the live Promocode row
ApprovedBonusLive(tx, used) ==
    IF tx.promo_code # 0 /\ ~used /\ promos[tx.promo_code].is_active
    THEN PromoBonus(tx.amount, promos[tx.promo_code].percent)
    ELSE 0

\* line 172: the bonus an approval credits, given the has_used it read
ApprovedBonus(tx, used) == IF tx.promo_code # 0 /\ ~used THEN tx.promo_bonus ELSE 0

\* an approval that forgets the cashback
ApprovedTotalNoCashback(tx, used) ==
    Quantize((tx.amount + ApprovedBonus(tx, used)) * 100, 100)

\* line 173
ApprovedTotal(tx, used) ==
    Quantize((tx.amount + tx.cashback + ApprovedBonus(tx, used)) * 100, 100)

\* an adapter without the is_active guard
NeverActive(tx) == FALSE

\* line 168, on the row the adapter has just read
AlreadyActive(tx) == tx.is_active

\* lines 166-170: an active row returns False at once; a Pending one enters
\* the atomic block with the row and its user (select_related) in memory
ApproveTopupBegin(t) ==
    IF AlreadyActive(topups[t])
    THEN /\ UNCHANGED <<procs, calls>>
    ELSE /\ Budget
         /\ procs' = Spawn(
                [Idle EXCEPT !.kind = "approve", !.pc = "atomic", !.t = t,
                             !.u = topups[t].user,
                             !.bal = users[topups[t].user].balance])
         /\ calls' = calls + 1

\* line 171: has_used, read inside the atomic block
ApproveTopupReadUsage(h) ==
    /\ Silent
    /\ h.kind = "approve" /\ h.pc = "atomic"
    /\ procs' = Move(h, [h EXCEPT !.used = HasUsed(h.u, topups[h.t].promo_code),
                                        !.pc = "write"])
    /\ UNCHANGED <<db, calls, hist>>

\* lines 172-188: the writes of the atomic block, committed together; the
\* insert of a second PromocodeUsage row for the pair raises IntegrityError,
\* which rolls the block back
ApproveTopupCommit(h) ==
    /\ Silent
    /\ h.kind = "approve" /\ h.pc = "write"
    /\ LET t == h.t
           u == h.u
           tx == topups[t]
           used == h.used
           grant == tx.promo_code # 0 /\ ~used
           total == ApprovedTotal(tx, used)
       IN  IF grant /\ ~UniqueTogether(usage[u][tx.promo_code] + 1)
           THEN /\ calls' = calls - 1
                /\ UNCHANGED <<db, hist>>
           ELSE /\ users' = [users EXCEPT ![u].balance =
                                 Quantize((h.bal + total) * 100, 100)]
                /\ topups' = [topups EXCEPT ![t].is_active = TRUE,
                                            ![t].activated_at = Now(applied)]
                /\ usage' = IF grant THEN [usage EXCEPT ![u][tx.promo_code] = @ + 1]
                            ELSE usage
                /\ notifs' = Notify(notifs, u, "Top-up approved")
                /\ applied' = [applied EXCEPT ![t] = @ + 1]
                /\ credited' = [credited EXCEPT ![u] = @ + total]
                /\ granted' = IF ApprovedBonus(tx, used) > 0
                              THEN [granted EXCEPT ![u][tx.promo_code] = @ + 1]
                              ELSE granted
                /\ UNCHANGED <<promos, projects, calls>>
    /\ procs' = Finish(h)

\* a database error inside the atomic block: everything is rolled back
ApproveTopupFail(h) ==
    /\ Silent
    /\ h.kind = "approve" /\ h.pc \in {"atomic", "write"}
    /\ procs' = Finish(h)
    /\ calls' = calls - 1
    /\ UNCHANGED <<db, hist>>

\* ------------------------------------------------- signed links, webhook
\* what a caller may send as tx: 0 is a missing parameter, -1 a string that
\* is not a number, Len(topups) + 1 an id of no row
TxInputs == (-1)..(Len(topups) + 1)

TokenInputs == {MissingToken, ForgedToken} \cup {Hmac(t, topups[t].user) : t \in TxIds}

\* signed links that do not compare the token
LinkCheckNoToken(txid, token) ==
    IF txid = 0 \/ token = MissingToken THEN 400
    ELSE IF txid \notin TxIds THEN 404
    ELSE 200

\* lines 247-260 (and 290-303): the checks both signed links make
LinkCheck(txid, token) ==
    IF txid = 0 \/ token = MissingToken THEN 400
    ELSE IF txid \notin TxIds THEN 404
    ELSE IF token # Hmac(txid, topups[txid].user) THEN 403
    ELSE 200

\* the Response of a signed link once its checks are made (lines 250, 254,
\* 260, 283 and 293, 297, 303, 325)
LinkReply(call, txid, token) ==
    LET code == LinkCheck(txid, token)
    IN  CASE code = 400 -> Response(call, 400, FALSE, "missing params", 0)
          [] code = 404 -> Response(call, 404, FALSE, "tx not found", 0)
          [] code = 403 -> Response(call, 403, FALSE, "invalid token", txid)
          [] OTHER -> Response(call, 200, TRUE,
                               IF call = "approve" THEN "approved" ELSE "rejected", txid)

\* ApproveTopupView.get
ApproveTopupView(txid, token) ==
    /\ Free
    /\ IF LinkCheck(txid, token) # 200
       THEN /\ Reply(LinkReply("approve", txid, token))
            /\ UNCHANGED <<procs, calls>>
       ELSE /\ IF AlreadyActive(topups[txid])
               THEN Reply(LinkReply("approve", txid, token))
               ELSE Silent
            /\ ApproveTopupBegin(txid)
    /\ UNCHANGED <<db, hist>>

\* a reject link wired to the approve handler
RejectAsApprove(txid, token) == ApproveTopupView(txid, token)

\* RejectTopupView.get: no state change
RejectTopupView(txid, token) ==
    /\ Reply(LinkReply("reject", txid, token))
    /\ UNCHANGED <<db, procs, calls, hist>>

\* the payloads of the webhook: no callback_query, a data string without a
\* colon, or data = "action:txid"
BotActions == {"approve", "reject", "other"}

Payloads ==
    {[shape |-> "no_callback", action |-> "", txid |-> 0],
     [shape |-> "no_colon", action |-> "", txid |-> 0]}
    \cup [shape : {"action_tx"}, action : BotActions, txid : TxInputs]

\* the Response of the webhook (lines 337, 340, 345, 372, 395, 396)
WebhookReply(payload) ==
    IF payload.shape # "action_tx" THEN Response("webhook", 200, TRUE, "", 0)
    ELSE IF payload.txid \notin TxIds
    THEN Response("webhook", 200, FALSE, "tx not found", 0)
    ELSE IF payload.action = "approve"
    THEN Response("webhook", 200, TRUE, "approved", payload.txid)
    ELSE IF payload.action = "reject"
    THEN Response("webhook", 200, TRUE, "rejected", payload.txid)
    ELSE Response("webhook", 200, TRUE, "", 0)

\* TelegramWebhookView.post
TelegramWebhookView(payload) ==
    /\ Free
    /\ IF payload.shape = "action_tx" /\ payload.txid \in TxIds
          /\ payload.action = "approve"
       THEN /\ IF AlreadyActive(topups[payload.txid])
               THEN Reply(WebhookReply(payload))
               ELSE Silent
            /\ ApproveTopupBegin(payload.txid)
       ELSE /\ Reply(WebhookReply(payload))
            /\ UNCHANGED <<procs, calls>>
    /\ UNCHANGED <<db, hist>>

\* ---------------------------------------------------------- StartProject
\* a start_project that only refuses a negative balance
InsufficientBelowZero(bal) == bal < 0

\* a start_project without the balance check
NeverInsufficient(bal) == FALSE

\* line 111
Insufficient(bal) == bal < FEE

\* line 112
InsufficientBalance(u) == Response("start_project", 400, FALSE, "Insufficient balance", u)

\* ProjectViewSet.start_project, lines 109-112: request.user is the row the
\* authentication read; a balance under the fee answers 400
StartProject(u) ==
    /\ Free
    /\ u \in UserIds
    /\ IF Insufficient(users[u].balance)
       THEN /\ Reply(InsufficientBalance(u))
            /\ UNCHANGED <<procs, calls>>
       ELSE /\ Silent
            /\ Budget
            /\ procs' = Spawn(
                   [Idle EXCEPT !.kind = "start", !.pc = "atomic", !.u = u,
                                !.bal = users[u].balance])
            /\ calls' = calls + 1
    /\ UNCHANGED <<db, hist>>

\* lines 118-134: the debit, the project row and the Notification
StartProjectCommit(h) ==
    /\ Silent
    /\ h.kind = "start" /\ h.pc = "atomic"
    /\ users' = [users EXCEPT ![h.u].balance = h.bal - FEE]
    /\ projects' = [projects EXCEPT ![h.u] = @ + 1]
    /\ notifs' = Notify(notifs, h.u, "New project started")
    /\ procs' = Finish(h)
    /\ UNCHANGED <<topups, promos, usage, calls, hist>>

\* a database error inside the atomic block: everything is rolled back
StartProjectFail(h) ==
    /\ Silent
    /\ h.kind = "start"
    /\ procs' = Finish(h)
    /\ calls' = calls - 1
    /\ UNCHANGED <<db, hist>>

\* ------------------------------------------- admin: approve_topups action
\* the orders in which the selected rows may come out of the queryset
RECURSIVE Orders(_)
Orders(S) ==
    IF S = {} THEN {<<>>}
    ELSE UNION {{<<t>> \o o : o \in Orders(S \ {t})} : t \in S}

Selections == UNION {Orders(S) : S \in (SUBSET TxIds) \ {{}}}

\* line 79: queryset.select_related("user") is evaluated once, when the loop
\* starts; every row comes with its own copy of its user
ApproveTopupsLoad(order) ==
    /\ Silent
    /\ Free /\ Budget
    /\ calls' = calls + 1
    /\ procs' = Spawn(
           [Idle EXCEPT !.kind = "bulk", !.pc = "atomic",
                        !.sel = [i \in 1..Len(order) |->
                                    [id |-> order[i],
                                     is_active |-> topups[order[i]].is_active,
                                     bal |-> users[topups[order[i]].user].balance]]])
    /\ UNCHANGED <<db, hist>>

\* a bulk action written apart from the shared operation, which has drifted:
\* it credits and flips the row but inserts no Notification
ApproveTopupsRowNoNotification(acc, row) ==
    IF row.is_active THEN acc
    ELSE
    LET tx == acc.topups[row.id]
        u == tx.user
        used == tx.promo_code # 0 /\ acc.usage[u][tx.promo_code] > 0
        total == ApprovedTotal(tx, used)
    IN  [users |-> [acc.users EXCEPT ![u].balance = Quantize((row.bal + total) * 100, 100)],
         topups |-> [acc.topups EXCEPT ![row.id].is_active = TRUE,
                                       ![row.id].activated_at = Now(acc.applied)],
         usage |-> IF tx.promo_code # 0 /\ ~used
                   THEN [acc.usage EXCEPT ![u][tx.promo_code] = @ + 1]
                   ELSE acc.usage,
         notifs |-> acc.notifs,
         applied |-> [acc.applied EXCEPT ![row.id] = @ + 1],
         credited |-> [acc.credited EXCEPT ![u] = @ + total],
         granted |-> IF ApprovedBonus(tx, used) > 0
                     THEN [acc.granted EXCEPT ![u][tx.promo_code] = @ + 1]
                     ELSE acc.granted,
         approved |-> acc.approved + 1]

\* lines 80-99 for one row of the loop, on the writes made so far
ApproveTopupsRow(acc, row) ==
    IF row.is_active THEN acc
    ELSE
    LET tx == acc.topups[row.id]
        u == tx.user
        used == tx.promo_code # 0 /\ acc.usage[u][tx.promo_code] > 0
        total == ApprovedTotal(tx, used)
    IN  [users |-> [acc.users EXCEPT ![u].balance = Quantize((row.bal + total) * 100, 100)],
         topups |-> [acc.topups EXCEPT ![row.id].is_active = TRUE,
                                       ![row.id].activated_at = Now(acc.applied)],
         usage |-> IF tx.promo_code # 0 /\ ~used
                   THEN [acc.usage EXCEPT ![u][tx.promo_code] = @ + 1]
                   ELSE acc.usage,
         notifs |-> Notify(acc.notifs, u, "Top-up approved"),
         applied |-> [acc.applied EXCEPT ![row.id] = @ + 1],
         credited |-> [acc.credited EXCEPT ![u] = @ + total],
         granted |-> IF ApprovedBonus(tx, used) > 0
                     THEN [acc.granted EXCEPT ![u][tx.promo_code] = @ + 1]
                     ELSE acc.granted,
         approved |-> acc.approved + 1]

RECURSIVE ApproveTopupsLoop(_, _, _)
ApproveTopupsLoop(acc, sel, i) ==
    IF i > Len(sel) THEN acc
    ELSE ApproveTopupsLoop(ApproveTopupsRow(acc, sel[i]), sel, i + 1)

\* lines 78-100: the loop over the rows read, all in one atomic block
ApproveTopups(h) ==
    /\ h.kind = "bulk" /\ h.pc = "atomic"
    /\ LET out == ApproveTopupsLoop(
                     [users |-> users, topups |-> topups, usage |-> usage,
                      notifs |-> notifs, applied |-> applied, credited |-> credited,
                      granted |-> granted, approved |-> 0], h.sel, 1)
       IN  /\ users' = out.users
           /\ topups' = out.topups
           /\ usage' = out.usage
           /\ notifs' = out.notifs
           /\ applied' = out.applied
           /\ credited' = out.credited
           /\ granted' = out.granted
           /\ Reply(Response("approve_topups", 200, TRUE, "Approved", out.approved))
    /\ procs' = Finish(h)
    /\ calls' = IF topups' = topups THEN calls - 1 ELSE calls
    /\ UNCHANGED <<promos, projects>>

\* a database error while the loop approves its k-th row, inside the atomic
\* block of line 78: the exception leaves the block, the whole batch is
\* rolled back and the admin gets an error page
ApproveTopupsFail(h, k) ==
    /\ h.kind = "bulk"
    /\ k \in 1..Len(h.sel)
    /\ ~h.sel[k].is_active
    /\ Reply(Response("approve_topups", 500, FALSE, "error", k))
    /\ procs' = Finish(h)
    /\ calls' = calls - 1
    /\ UNCHANGED <<db, hist>>

\* ------------------------------------------------ admin: save_model
\* The change form is posted with is_active = posted.  The admin site reads
\* obj (and, validating the form, its user) before it calls save_model;
\* line 105: 'is_active' is in form.changed_data when the posted value
\* differs from the row read.
SaveModelLoad(t, posted) ==
    /\ Silent
    /\ Free /\ Budget
    /\ t \in TxIds
    /\ calls' = calls + 1
    /\ procs' = Spawn(
           [Idle EXCEPT !.kind = "edit",
                        !.pc = IF posted # topups[t].is_active THEN "prev" ELSE "save",
                        !.t = t, !.u = topups[t].user, !.posted = posted,
                        !.stamp = topups[t].activated_at,
                        !.bal = users[topups[t].user].balance])
    /\ UNCHANGED <<db, hist>>

\* line 107
TogglesOn(prev, obj_is_active) == ~prev.is_active /\ obj_is_active

\* lines 106-107: prev is read again; only False -> True enters the block
SaveModelPrev(h) ==
    /\ Silent
    /\ h.kind = "edit" /\ h.pc = "prev"
    /\ procs' = Move(h, [h EXCEPT !.pc =
                    IF TogglesOn(topups[h.t], h.posted) THEN "atomic" ELSE "save"])
    /\ UNCHANGED <<db, calls, hist>>

\* line 109: has_used, read inside the atomic block
SaveModelReadUsage(h) ==
    /\ Silent
    /\ h.kind = "edit" /\ h.pc = "atomic"
    /\ procs' = Move(h, [h EXCEPT !.used = HasUsed(h.u, topups[h.t].promo_code),
                                        !.pc = "write"])
    /\ UNCHANGED <<db, calls, hist>>

\* lines 110-125: the credit, the save of obj (every field of the form and
\* the new activated_at), the usage row and the Notification
SaveModelCommit(h) ==
    /\ Silent
    /\ h.kind = "edit" /\ h.pc = "write"
    /\ LET t == h.t
           u == h.u
           tx == topups[t]
           used == h.used
           grant == tx.promo_code # 0 /\ ~used
           total == ApprovedTotal(tx, used)
       IN  IF grant /\ ~UniqueTogether(usage[u][tx.promo_code] + 1)
           THEN /\ calls' = calls - 1
                /\ UNCHANGED <<db, hist>>
           ELSE /\ users' = [users EXCEPT ![u].balance =
                                 Quantize((h.bal + total) * 100, 100)]
                /\ topups' = [topups EXCEPT ![t].is_active = h.posted,
                                            ![t].activated_at = Now(applied)]
                /\ usage' = IF grant THEN [usage EXCEPT ![u][tx.promo_code] = @ + 1]
                            ELSE usage
                /\ notifs' = Notify(notifs, u, "Top-up approved")
                /\ applied' = [applied EXCEPT ![t] = @ + 1]
                /\ credited' = [credited EXCEPT ![u] = @ + total]
                /\ granted' = IF ApprovedBonus(tx, used) > 0
                              THEN [granted EXCEPT ![u][tx.promo_code] = @ + 1]
                              ELSE granted
                /\ UNCHANGED <<promos, projects, calls>>
    /\ procs' = Finish(h)

\* line 126: super().save_model() writes obj as posted, is_active included,
\* with the activated_at obj was read with (a read-only field)
SaveModelSave(h) ==
    /\ Silent
    /\ h.kind = "edit" /\ h.pc = "save"
    /\ topups' = [topups EXCEPT ![h.t].is_active = h.posted,
                                ![h.t].activated_at = h.stamp]
    /\ procs' = Finish(h)
    /\ calls' = IF topups' = topups THEN calls - 1 ELSE calls
    /\ UNCHANGED <<users, promos, usage, projects, notifs, hist>>

\* a database error in save_model: the atomic block, if entered, is rolled
\* back and nothing is saved
SaveModelFail(h) ==
    /\ Silent
    /\ h.kind = "edit"
    /\ procs' = Finish(h)
    /\ calls' = calls - 1
    /\ UNCHANGED <<db, hist>>

\* ------------------------------------------------ admin: PromocodeAdmin
\* the change form of a Promocode row saved with another percent or
\* is_active (ModelAdmin.save_model writes the row as posted)
PromocodeAdminSave(i, percent, is_active) ==
    /\ Silent /\ Budget
    /\ <<percent, is_active>> # <<promos[i].percent, promos[i].is_active>>
    /\ promos' = [promos EXCEPT ![i].percent = percent, ![i].is_active = is_active]
    /\ calls' = calls + 1
    /\ UNCHANGED <<users, topups, usage, projects, notifs, procs, hist>>

\* the caller receives the Response
Return ==
    /\ response # NoResponse
    /\ response' = NoResponse
    /\ UNCHANGED <<db, procs, calls, hist>>

\* ----------------------------------------------------------------- Next
Next ==
    \/ \E ref \in RefInputs, code \in RefCodePool : RegisterCreate(ref, code)
    \/ \E h \in Handlers : RegisterCredit(h)
    \/ \E h \in Handlers : RegisterNotify(h)
    \/ \E h \in Handlers : RegisterFail(h)
    \/ \E u \in UserIds, amount \in AmountInputs, code \in CodeInputs : WalletPost(u, amount, code)
    \/ \E txid \in TxInputs, token \in TokenInputs : ApproveTopupView(txid, token)
    \/ \E txid \in TxInputs, token \in TokenInputs : RejectTopupView(txid, token)
    \/ \E payload \in Payloads : TelegramWebhookView(payload)
    \/ \E h \in Handlers : ApproveTopupReadUsage(h)
    \/ \E h \in Handlers : ApproveTopupCommit(h)
    \/ \E h \in Handlers : ApproveTopupFail(h)
    \/ \E u \in UserIds : StartProject(u)
    \/ \E h \in Handlers : StartProjectCommit(h)
    \/ \E h \in Handlers : StartProjectFail(h)
    \/ \E order \in Selections : ApproveTopupsLoad(order)
    \/ \E h \in Handlers : ApproveTopups(h)
    \/ \E h \in Handlers, k \in 1..MaxTx : ApproveTopupsFail(h, k)
    \/ \E t \in TxIds, posted \in BOOLEAN : SaveModelLoad(t, posted)
    \/ \E h \in Handlers : SaveModelPrev(h)
    \/ \E h \in Handlers : SaveModelReadUsage(h)
    \/ \E h \in Handlers : SaveModelCommit(h)
    \/ \E h \in Handlers : SaveModelSave(h)
    \/ \E h \in Handlers : SaveModelFail(h)
    \/ \E i \in PromoIds, percent \in PercentInputs, is_active \in BOOLEAN :
           PromocodeAdminSave(i, percent, is_active)

Spec == Init /\ [][Next]_vars

\* ------------------------------------------------- the runs with a client
\* The same database and the same handlers, one request at a time, with the
\* Response of every call that returns at once kept until it is received.
InitWatched ==
    /\ users = <<[balance |-> 0, referral_code |-> "AB12CD34", referred_by |-> 0]>>
    /\ topups = <<>>
    /\ promos = [i \in PromoIds |-> PromoRow]
    /\ usage = [u \in AllUsers |-> [i \in PromoIds |-> 0]]
    /\ projects = [u \in AllUsers |-> 0]
    /\ notifs = [u \in AllUsers |-> [x \in Titles |-> 0]]
    /\ procs = EmptyBag
    /\ calls = 0
    /\ applied = [t \in AllTx |-> 0]
    /\ credited = [u \in AllUsers |-> 0]
    /\ granted = [u \in AllUsers |-> [i \in PromoIds |-> 0]]
    /\ response = NoResponse

NextWatched == Next \/ Return

SpecWatched == InitWatched /\ [][NextWatched]_vars

\* =============================================================== properties

\* the step ends (a copy of) handler h / starts one
Ends(h) == CopiesIn(h, procs') < CopiesIn(h, procs)
Starts(h) == CopiesIn(h, procs') > CopiesIn(h, procs)

\* account u was never paid a referral bonus
NoReferral(u) == \A v \in UserIds : users[v].referred_by # u

\* approvals committed for the requests of account u
Approvals(u) ==
    SumTo([t \in AllTx |-> IF t \in TxIds /\ topups[t].user = u THEN applied[t] ELSE 0],
          MaxTx)

\* the step commits one approval of the Pending request t, made by handler h
\* (a signed link, a bot callback, an edit-save, or a bulk action on t alone)
CommitsApproval(h, t) ==
    /\ Ends(h)
    /\ ~topups[t].is_active
    /\ applied'[t] = applied[t] + 1
    /\ \/ h.kind \in {"approve", "edit"} /\ h.pc = "write" /\ h.t = t
       \/ h.kind = "bulk" /\ Len(h.sel) = 1 /\ h.sel[1].id = t /\ ~h.sel[1].is_active

\* the balance h read for the account of t is still what the database holds
Fresh(h, t) ==
    IF h.kind = "bulk" THEN h.sel[1].bal = users[topups[t].user].balance
    ELSE h.bal = users[topups[t].user].balance

\* one approval, with no other write to the account since h read it
SingleApproval(h, t) == CommitsApproval(h, t) /\ Fresh(h, t)

\* ------------------------------------------------------------------- C1
\* C1: a request is credited only by an approval that finds it Pending: when
\* two approvals of one id overlap, the second to commit finds the row
\* Approved and must change nothing, so no approval is ever committed for a
\* request the database already holds as Approved.
C1_LoserObservesApproved ==
    [][\A t \in TxIds : applied'[t] > applied[t] => ~topups[t].is_active]_vars

\* ------------------------------------------------------------------- C2
\* C2: approvals of different requests of one account lose no update: on an
\* account that only approvals write (no project started, no referral bonus
\* earned), the commit of an approval of a Pending request adds the total it
\* credits to the balance the database holds, whatever other approvals were
\* committed since it read the account.
C2_NoLostCredit ==
    [][\A h \in Handlers, t \in TxIds :
           (/\ CommitsApproval(h, t)
            /\ projects[topups[t].user] = 0
            /\ NoReferral(topups[t].user))
           => LET u == topups[t].user
              IN  users'[u].balance = users[u].balance + (credited'[u] - credited[u])
      ]_vars

\* ------------------------------------------------------------------- C3
\* C3: an approval invoked on a request that is already Approved changes
\* nothing: the signed link and the bot callback never enter the atomic block
\* for such a row (they return applied = False), the bulk action skips the
\* rows it read as Approved, and an edit-save that posts is_active = True for
\* the Approved row it read writes the row back as it is.
C3_ApprovedIsNoOp ==
    [][/\ \A h \in BagToSet(procs') :
              (h.kind = "approve" /\ h.pc = "atomic" /\ Starts(h))
              => ~topups[h.t].is_active
       /\ \A h \in Handlers :
              (/\ h.kind = "bulk" /\ Ends(h)
               /\ \A i \in 1..Len(h.sel) : h.sel[i].is_active)
              => UNCHANGED <<db, hist>>
       /\ \A h \in Handlers :
              (/\ h.kind = "edit" /\ h.pc = "save" /\ h.posted /\ Ends(h)
               /\ topups[h.t].is_active
               /\ topups[h.t].activated_at = h.stamp)
              => UNCHANGED <<db, hist>>
      ]_vars

\* an edit-save with is_active checked is in flight on a request that was
\* approved once and is still as the handler read it, and a bulk action is in
\* flight on rows it read as Approved
C3_Witness ==
    /\ \E h \in Handlers :
           /\ h.kind = "edit" /\ h.pc = "save" /\ h.posted
           /\ topups[h.t].is_active /\ topups[h.t].activated_at = h.stamp
           /\ applied[h.t] = 1
    /\ \E h \in Handlers :
           /\ h.kind = "bulk"
           /\ \A i \in 1..Len(h.sel) : h.sel[i].is_active

\* ------------------------------------------------------------------- C4
\* C4: one approval of a Pending request credits amount + cashback + bonus to
\* the balance, the bonus being the stored promo_bonus when the request has a
\* promo code and the account has no PromocodeUsage row for it, and 0
\* otherwise.
C4_SingleApprovalCredit ==
    [][\A h \in Handlers, t \in TxIds :
           SingleApproval(h, t) =>
               LET tx == topups[t]
                   u == tx.user
                   bonus == IF tx.promo_code # 0 /\ usage[u][tx.promo_code] = 0
                            THEN tx.promo_bonus ELSE 0
               IN  users'[u].balance = users[u].balance + tx.amount + tx.cashback + bonus
      ]_vars

\* the only request was approved once, with its promo bonus
C4_Witness ==
    /\ Len(topups) = 1
    /\ topups[1].is_active /\ applied[1] = 1
    /\ topups[1].promo_code # 0 /\ topups[1].promo_bonus > 0
    /\ users[topups[1].user].balance =
           topups[1].amount + topups[1].cashback + topups[1].promo_bonus

\* ------------------------------------------------------------------- C5
\* C5: for every (account, promo code) pair at most one approval credits a
\* nonzero bonus and the pair never has more than one PromocodeUsage row;
\* once a request referencing the pair has been approved the pair has
\* exactly one row.
C5_OneBonusPerPair ==
    \A u \in UserIds, i \in PromoIds :
        /\ granted[u][i] <= 1
        /\ usage[u][i] <= 1
        /\ (\E t \in TxIds : topups[t].user = u /\ topups[t].promo_code = i
                             /\ applied[t] > 0)
           => usage[u][i] = 1

\* two requests of one account reference the code, both were approved, one
\* bonus was credited
C5_Witness ==
    \E u \in UserIds, i \in PromoIds :
        /\ granted[u][i] = 1 /\ usage[u][i] = 1
        /\ \E t1, t2 \in TxIds :
               /\ t1 # t2
               /\ \A t \in {t1, t2} : /\ topups[t].user = u
                                      /\ topups[t].promo_code = i
                                      /\ applied[t] > 0

\* ------------------------------------------------------------------- C6
\* C6: the approval of a Pending request whose promo code the account has
\* already used credits exactly amount + cashback, flips the request to
\* Approved, adds no PromocodeUsage row and leaves the stored promo_bonus
\* as it was, nonzero.
C6_SecondUseNoBonus ==
    [][\A h \in Handlers, t \in TxIds :
           (/\ SingleApproval(h, t)
            /\ topups[t].promo_code # 0
            /\ topups[t].promo_bonus > 0
            /\ usage[topups[t].user][topups[t].promo_code] > 0)
           => LET tx == topups[t]
                  u == tx.user
              IN  /\ users'[u].balance = users[u].balance + tx.amount + tx.cashback
                  /\ topups'[t].is_active
                  /\ topups'[t].promo_bonus = tx.promo_bonus
                  /\ usage' = usage
                  /\ granted' = granted
      ]_vars

\* both requests with the code were approved once, one after the other: the
\* balance holds both amounts and cashbacks and one bonus, and both rows
\* still store their bonus
C6_Witness ==
    /\ Len(topups) = 2
    /\ topups[1].user = topups[2].user
    /\ topups[1].promo_code # 0 /\ topups[1].promo_code = topups[2].promo_code
    /\ \A t \in {1, 2} : topups[t].is_active /\ applied[t] = 1 /\ topups[t].promo_bonus > 0
    /\ projects[topups[1].user] = 0
    /\ users[topups[1].user].balance =
           topups[1].amount + topups[1].cashback + topups[1].promo_bonus
           + topups[2].amount + topups[2].cashback

\* ------------------------------------------------------------------- C7
\* C7: an approval is all or nothing.  The step that commits the credit of a
\* request also flips it to Approved, stamps activated_at and inserts the
\* Notification; a PromocodeUsage row is inserted only by a step that credits
\* the bonus, a Notification only by a step that credits; and an approval
\* that ends in a rollback leaves every table as it was.
C7_AllOrNothing ==
    [][/\ \A t \in TxIds :
              applied'[t] > applied[t] =>
                  /\ topups'[t].is_active
                  /\ topups'[t].activated_at > topups[t].activated_at
                  /\ notifs'[topups[t].user]["Top-up approved"]
                         > notifs[topups[t].user]["Top-up approved"]
       /\ \A u \in UserIds, i \in PromoIds :
              usage'[u][i] > usage[u][i] => granted'[u][i] > granted[u][i]
       /\ \A u \in UserIds :
              notifs'[u]["Top-up approved"] > notifs[u]["Top-up approved"]
                  => credited'[u] > credited[u]
       /\ \A h \in Handlers :
              (/\ h.kind \in {"approve", "edit"} /\ h.pc \in {"atomic", "write"}
               /\ Ends(h) /\ calls' < calls)
              => UNCHANGED <<db, hist>>
      ]_vars

\* an approval is about to insert a second PromocodeUsage row for its pair:
\* the insert fails and the block is rolled back
C7_Witness ==
    \E h \in Handlers :
        /\ h.kind \in {"approve", "edit"} /\ h.pc = "write"
        /\ ~h.used
        /\ topups[h.t].promo_code # 0
        /\ usage[h.u][topups[h.t].promo_code] = 1

\* ------------------------------------------------------------------- C8
\* C8: once a request is Approved no step returns it to Pending or changes
\* its amount, cashback or promo_bonus.
C8_StatusMonotonic ==
    [][\A t \in TxIds :
           topups[t].is_active =>
               /\ topups'[t].is_active
               /\ topups'[t].amount = topups[t].amount
               /\ topups'[t].cashback = topups[t].cashback
               /\ topups'[t].promo_bonus = topups[t].promo_bonus
      ]_vars

\* ------------------------------------------------------------------- C9
\* C9: in every reachable state every account's balance is >= 0.
C9_BalanceNonNegative == \A u \in UserIds : users[u].balance >= 0

\* an account has started two projects on less than two fees of credit (its
\* starts overlapped), and its balance is still not negative
C9_Witness ==
    \E u \in UserIds :
        /\ projects[u] = 2
        /\ credited[u] < 2 * FEE
        /\ users[u].balance >= 0

\* ------------------------------------------------------------------ C10
\* C10: what project starts debit is fee x the project rows they created: for
\* an account whose only credit is one committed approval (no referral
\* bonus), the balance is that credit minus FEE for every project row,
\* whenever no handler is in flight.
C10_DebitPerProject ==
    \A u \in UserIds :
        (procs = EmptyBag /\ NoReferral(u) /\ Approvals(u) <= 1)
        => users[u].balance = credited[u] - FEE * projects[u]

\* ------------------------------------------------------------------ C11
\* C11: a start_project call by an account whose balance is under the fee
\* answers 400 "Insufficient balance" and leaves every table (balances,
\* projects, notifications) and every handler as it was.
C11_InsufficientBalance ==
    [][\A u \in UserIds :
           (StartProject(u) /\ users[u].balance < FEE)
           => /\ response' = Response("start_project", 400, FALSE,
                                      "Insufficient balance", u)
              /\ UNCHANGED <<db, procs, hist>>
      ]_vars

\* an account that has paid for one project and kept less than the fee has
\* been refused its next start
C11_Witness ==
    /\ response.call = "start_project" /\ response.code = 400
    /\ projects[response.arg] = 1
    /\ users[response.arg].balance > 0
    /\ users[response.arg].balance < FEE

\* ------------------------------------------------------------------ C12
\* C12: the registration that names the referral code of account R credits
\* R's balance by the fixed bonus, once: the step that saves the credit
\* leaves R's balance REFERRAL_BONUS above what the database held, with the
\* new account's referred_by set to R; and no step changes a referred_by
\* that has been set.
C12_ReferralCreditedOnce ==
    [][/\ \A h \in Handlers :
              RegisterCredit(h)
              => /\ users'[h.r].balance = users[h.r].balance + REFERRAL_BONUS
                 /\ users'[h.u].referred_by = h.r
       /\ \A v \in UserIds :
              users[v].referred_by # 0 => users'[v].referred_by = users[v].referred_by
      ]_vars

\* ------------------------------------------------------------------ C13
\* C13: the referral step of a registration is all or nothing: whenever no
\* registration is in flight, every account R has exactly one referral
\* Notification (recorded with its credit) for every account whose
\* referred_by is R.
C13_ReferralAllOrNothing ==
    (\A h \in Handlers : h.kind # "register")
    => \A r \in UserIds :
           notifs[r]["Referal bonusi"]
               = Cardinality({v \in UserIds : users[v].referred_by = r})

\* ------------------------------------------------------------------ C14
\* C14: a top-up request is refused with 400, and creates no request and no
\* Notification and changes no balance, when its amount is <= 0, when the
\* promo code it supplies matches no active code case-insensitively, or when
\* the account already has a PromocodeUsage row for the code.
C14_RequestRefused ==
    [][\A u \in UserIds, amount \in AmountInputs, code \in CodeInputs :
           WalletPost(u, amount, code) =>
               LET supplied == Strip(code) # ""
                   matches == {i \in PromoIds :
                                  /\ promos[i].is_active
                                  /\ Upper(promos[i].code) = Upper(Strip(code))}
                   Refused(field) ==
                       /\ response' = Response("wallet", 400, FALSE, field, u)
                       /\ UNCHANGED <<db, procs, hist>>
               IN  /\ amount <= 0 => Refused("amount")
                   /\ (amount > 0 /\ supplied /\ matches = {}) => Refused("promo_code")
                   /\ (amount > 0 /\ supplied /\ \E i \in matches : usage[u][i] > 0)
                      => Refused("promo_used")
      ]_vars

\* an account whose approved top-up used the code has been refused a second
\* request with it
C14_Witness ==
    /\ response.call = "wallet" /\ response.text = "promo_used"
    /\ \E i \in PromoIds : usage[response.arg][i] = 1

\* ------------------------------------------------------------------ C15
\* C15: the signed approve link acts only on the token that is the keyed
\* hash of "tx.id:user.id" of the request it addresses: with any other token
\* (the valid token of another request included) it answers 403 "invalid
\* token", with an id that resolves to no request 404 "tx not found", and in
\* both cases changes no table and starts no approval; a call that starts an
\* approval carried the request's own token.
C15_TokenGuardsApprove ==
    [][\A txid \in TxInputs, token \in TokenInputs :
           ApproveTopupView(txid, token) =>
               /\ (token # MissingToken /\ txid # 0 /\ txid \notin TxIds)
                  => /\ response' = Response("approve", 404, FALSE, "tx not found", 0)
                     /\ UNCHANGED <<db, procs, hist>>
               /\ (token # MissingToken /\ txid \in TxIds
                   /\ token # Hmac(txid, topups[txid].user))
                  => /\ response' = Response("approve", 403, FALSE, "invalid token", txid)
                     /\ UNCHANGED <<db, procs, hist>>
               /\ procs' # procs
                  => txid \in TxIds /\ token = Hmac(txid, topups[txid].user)
      ]_vars

\* with two requests on file (each with a valid token of its own), an
\* approve link for one of them was refused for its token
C15_Witness ==
    /\ response.call = "approve" /\ response.code = 403
    /\ Len(topups) = 2
    /\ ~topups[response.arg].is_active

\* ------------------------------------------------------------------ C16
\* C16: a reject changes nothing: the signed reject link (whatever its
\* token) and the bot callback with action "reject" leave balances,
\* requests (status and activated_at), PromocodeUsage rows and Notifications
\* as they were and start no handler, so the request stays Pending and open
\* to a later approval; with the request's own token the link answers
\* 200 "rejected".
C16_RejectNoMutation ==
    [][/\ \A txid \in TxInputs, token \in TokenInputs :
              RejectTopupView(txid, token) =>
                  /\ UNCHANGED <<db, procs, hist>>
                  /\ (txid \in TxIds /\ token = Hmac(txid, topups[txid].user))
                     => response' = Response("reject", 200, TRUE, "rejected", txid)
       /\ \A payload \in Payloads :
              (/\ payload.shape = "action_tx" /\ payload.action = "reject"
               /\ TelegramWebhookView(payload))
              => /\ UNCHANGED <<db, procs, hist>>
                 /\ payload.txid \in TxIds
                    => response' = Response("webhook", 200, TRUE, "rejected", payload.txid)
      ]_vars

\* a Pending request has just been rejected, and is still Pending
C16_Witness ==
    /\ response.text = "rejected"
    /\ ~topups[response.arg].is_active
    /\ applied[response.arg] = 0

\* ------------------------------------------------------------------ C17
\* a payload that names no request to act on: no callback_query, a data
\* string without a colon, an action that is neither approve nor reject, an
\* id that is not a number (txid = 0 stands for every such string) or that
\* resolves to no row
Malformed(payload) ==
    \/ payload.shape # "action_tx"
    \/ payload.action \notin {"approve", "reject"}
    \/ payload.txid \notin TxIds

\* C17: whatever the payload, the webhook's response is 200 with ok = true
\* and no error text, and a malformed payload changes no balance, request,
\* PromocodeUsage or Notification and starts no approval.
C17_WebhookAlwaysOk ==
    [][\A payload \in Payloads :
           TelegramWebhookView(payload) =>
               /\ Malformed(payload) => UNCHANGED <<db, procs, hist>>
               /\ response' # response
                  => /\ response'.code = 200
                     /\ response'.ok
                     /\ response'.text \in {"", "approved", "rejected"}
      ]_vars

\* the part of C17 the handler does keep: a malformed payload writes nothing
C17_MalformedNoMutation ==
    [][\A payload \in Payloads :
           (TelegramWebhookView(payload) /\ Malformed(payload))
           => UNCHANGED <<db, procs, hist>>]_vars

\* ------------------------------------------------------------------ C18
\* the Promocode row of request t no longer yields the bonus t stores: it
\* was deactivated, or its percent was changed, after the request was made
PromoChangedSince(t) ==
    LET tx == topups[t]
    IN  /\ tx.promo_code # 0
        /\ \/ ~promos[tx.promo_code].is_active
           \/ PromoBonus(tx.amount, promos[tx.promo_code].percent) # tx.promo_bonus

\* C18: the bonus an approval credits is the promo_bonus stored on the
\* request.  When the Promocode row was changed or deactivated after the
\* request, one approval of the Pending request, on an account without a
\* PromocodeUsage row for the code, still credits amount + cashback + the
\* stored promo_bonus and records the usage; and an edit of a Promocode row
\* changes no request, balance or PromocodeUsage row.
C18_StoredBonusCredited ==
    [][/\ \A h \in Handlers, t \in TxIds :
              (/\ SingleApproval(h, t)
               /\ PromoChangedSince(t)
               /\ usage[topups[t].user][topups[t].promo_code] = 0)
              => LET tx == topups[t]
                     u == tx.user
                 IN  /\ users'[u].balance =
                            users[u].balance + tx.amount + tx.cashback + tx.promo_bonus
                     /\ usage'[u][tx.promo_code] = 1
                     /\ topups'[t].promo_bonus = tx.promo_bonus
       /\ \A i \in PromoIds, percent \in PercentInputs, is_active \in BOOLEAN :
              PromocodeAdminSave(i, percent, is_active)
              => UNCHANGED <<users, topups, usage, notifs, hist>>
      ]_vars

\* an approval is about to commit the bonus of a request whose Promocode row
\* has been changed since the request stored it
C18_Witness ==
    \E h \in Handlers :
        /\ h.kind = "approve" /\ h.pc = "write" /\ ~h.used
        /\ PromoChangedSince(h.t)
        /\ topups[h.t].promo_bonus > 0
        /\ usage[h.u][topups[h.t].promo_code] = 0
        /\ h.bal = users[h.u].balance

\* ------------------------------------------------------------------ C19
\* the requests a step takes from Pending to Approved
Flipped == {t \in TxIds : ~topups[t].is_active /\ topups'[t].is_active}

\* C19: the bulk action approves each selected request on its own: when the
\* approval of the k-th row fails, every other Pending row of the selection
\* is Approved all the same, and the count the action reports is the number
\* of requests it took from Pending to Approved.
C19_BulkPartialSuccess ==
    [][\A h \in Handlers :
           /\ \A k \in 1..MaxTx :
                  ApproveTopupsFail(h, k) =>
                      \A j \in 1..Len(h.sel) :
                          (j # k /\ ~topups[h.sel[j].id].is_active)
                          => topups'[h.sel[j].id].is_active
           /\ (ApproveTopups(h) /\ response' # response)
              => response'.arg = Cardinality(Flipped)
      ]_vars

\* the part of C19 the action does keep when nothing fails: the reported
\* count is the number of requests that went from Pending to Approved
C19_ReportedCount ==
    [][\A h \in Handlers :
           (ApproveTopups(h) /\ response' # response)
           => response'.arg = Cardinality(Flipped)]_vars

\* ------------------------------------------------------------------ C20
\* the bulk action h is about to approve Pending requests of account u only,
\* at least two of them, each read while Pending and each carrying the
\* balance the database still holds
SameAccountBatch(h, u) ==
    /\ h.kind = "bulk" /\ h.pc = "atomic"
    /\ Len(h.sel) >= 2
    /\ \A i \in 1..Len(h.sel) :
           /\ topups[h.sel[i].id].user = u
           /\ ~h.sel[i].is_active
           /\ ~topups[h.sel[i].id].is_active
           /\ h.sel[i].bal = users[u].balance

\* C20: a bulk approval of several Pending requests of one account adds to
\* the balance the sum of the totals it credits: the balance after the
\* action is the balance before plus everything the batch credited.
C20_BatchSumsCredits ==
    [][\A h \in Handlers, u \in UserIds :
           (SameAccountBatch(h, u) /\ ApproveTopups(h))
           => users'[u].balance = users[u].balance + (credited'[u] - credited[u])
      ]_vars

\* ------------------------------------------------------------------ C21
\* what one approval of the Pending request t leaves in the database: the
\* balance, the status, whether activated_at is set, the PromocodeUsage rows
\* and the Notifications of the account
Outcome(t) ==
    LET u == topups[t].user
    IN  [balance |-> users'[u].balance,
         is_active |-> topups'[t].is_active,
         activated |-> topups'[t].activated_at # 0,
         usage |-> usage',
         notifs |-> notifs',
         others |-> <<[v \in UserIds \ {u} |-> users'[v]],
                      [x \in TxIds \ {t} |-> topups'[x]], promos', projects'>>]

\* the outcome as a function of the state before the approval
OutcomeOf(t) ==
    LET tx == topups[t]
        u == tx.user
        used == tx.promo_code # 0 /\ usage[u][tx.promo_code] > 0
    IN  [balance |-> users[u].balance + tx.amount + tx.cashback
                     + (IF tx.promo_code # 0 /\ ~used THEN tx.promo_bonus ELSE 0),
         is_active |-> TRUE,
         activated |-> TRUE,
         usage |-> IF tx.promo_code # 0 /\ ~used
                   THEN [usage EXCEPT ![u][tx.promo_code] = 1] ELSE usage,
         notifs |-> [notifs EXCEPT ![u]["Top-up approved"] = @ + 1],
         others |-> <<[v \in UserIds \ {u} |-> users[v]],
                      [x \in TxIds \ {t} |-> topups[x]], promos, projects>>]

\* C21: the admin paths do what the shared operation does.  From any state,
\* one approval of a Pending request gives the same balance, status,
\* activated_at presence, PromocodeUsage rows and Notifications whether it
\* is made by _approve_topup_transaction (signed link, bot), by the bulk
\* action or by an edit-save that toggles is_active on: each is the same
\* function of the state before.
C21_AdminPathsEquivalent ==
    [][\A h \in Handlers, t \in TxIds :
           (SingleApproval(h, t) /\ h.kind \in {"approve", "bulk", "edit"})
           => Outcome(t) = OutcomeOf(t)
      ]_vars

\* an edit-save is about to approve the second request of an account whose
\* first request, with the same promo code, was approved with its bonus
C21_Witness ==
    \E h \in Handlers :
        /\ h.kind = "edit" /\ h.pc = "write" /\ h.posted /\ h.used
        /\ ~topups[h.t].is_active
        /\ topups[h.t].promo_code # 0
        /\ granted[h.u][topups[h.t].promo_code] = 1
        /\ h.bal = users[h.u].balance
        /\ users[h.u].balance > 0

\* ------------------------------------------------------------------ C22
\* The arithmetic of WalletView.post on its own: one request, of any amount
\* with two fractional digits up to MaxRoundAmount hundredths, against a
\* promo code of any percent in 1..MaxPercent.
MaxRoundAmount == 250
MaxPercent == 100

RoundAmounts == 0..MaxRoundAmount

InitRounding ==
    /\ users = <<[balance |-> 0, referral_code |-> "AB12CD34", referred_by |-> 0]>>
    /\ topups = <<>>
    /\ \E percent \in 1..MaxPercent :
           promos = [i \in PromoIds |-> [PromoRow EXCEPT !.percent = percent]]
    /\ usage = [u \in AllUsers |-> [i \in PromoIds |-> 0]]
    /\ projects = [u \in AllUsers |-> 0]
    /\ notifs = [u \in AllUsers |-> [x \in Titles |-> 0]]
    /\ procs = EmptyBag
    /\ calls = 0
    /\ applied = [t \in AllTx |-> 0]
    /\ credited = [u \in AllUsers |-> 0]
    /\ granted = [u \in AllUsers |-> [i \in PromoIds |-> 0]]
    /\ response = Unwatched

\* the first request of the account
RequestTopUp(amount, code) ==
    /\ topups = <<>>
    /\ WalletPost(1, amount, code)

NextRounding == \E amount \in RoundAmounts, code \in CodeInputs : RequestTopUp(amount, code)

SpecRounding == InitRounding /\ [][NextRounding]_vars

\* n/d rounded to an integer, ties away from zero (ROUND_HALF_UP)
RoundHalfAway(n, d) ==
    IF n >= 0 THEN (2 * n + d) \div (2 * d)
    ELSE 0 - ((2 * (0 - n) + d) \div (2 * d))

\* C22: the request stores cashback = amount * 0.01 and promo_bonus =
\* amount * percent / 100, each rounded to two fractional digits with ties
\* rounded away from zero.
C22_RoundsHalfAway ==
    \A t \in TxIds :
        LET tx == topups[t]
        IN  /\ tx.cashback = RoundHalfAway(tx.amount, 100)
            /\ tx.promo_code # 0
               => tx.promo_bonus = RoundHalfAway(tx.amount * promos[tx.promo_code].percent, 100)

\* q is n/d rounded to the nearest integer, a tie going to the even one
NearestTiesToEven(q, n, d) ==
    LET e == IF q * d >= n THEN q * d - n ELSE n - q * d
    IN  /\ 2 * e <= d
        /\ 2 * e = d => q % 2 = 0

\* what the request does store: both values are exact to two fractional
\* digits, rounded to nearest with ties to the even cent
C22_RoundsHalfEven ==
    \A t \in TxIds :
        LET tx == topups[t]
        IN  /\ NearestTiesToEven(tx.cashback, tx.amount, 100)
            /\ tx.promo_code # 0
               => NearestTiesToEven(tx.promo_bonus,
                                    tx.amount * promos[tx.promo_code].percent, 100)

====
